---------------------------- MODULE Spec2Model ----------------------------
(***************************************************************************)
(* CyberArk CCP client (cyberark_ccp/client.py): request construction and  *)
(* response classification of CyberarkCCPClient.                           *)
(*                                                                         *)
(* Strings supplied by the caller are sequences of one-character strings,  *)
(* so that "char in value" is a test the model really performs.  An        *)
(* optional argument is a set: {} is None, {v} is the value v.             *)
(* An exception is a record [kind |-> "raise", cat, msg]; a message is a   *)
(* record [fmt, args] holding the f-string of the source and the values    *)
(* substituted for its placeholders, in order.                             *)
(***************************************************************************)
EXTENDS Integers, Sequences, FiniteSets, TLC

VARIABLES
    base_url,   \* self.base_url
    app_id,     \* self.app_id
    cert_path,  \* self.cert_path
    verify,     \* self.verify
    timeout,    \* self.timeout
    session,    \* self._session: "open" or "closed"
    pc,         \* position of the caller: "idle", "waiting" (GET in flight), "done"
    call,       \* the operation in progress and its arguments
    params,     \* the wire parameters built by the call (sequence of <<key, value>>)
    gets,       \* the GETs handed to the transport during the call, in order
    reply,      \* what the transport answered to the GET
    outcome,    \* how the call ended: a returned value or a raised error
    scope,      \* the caller's "with client as ...:" statement and error handling
    closes      \* the number of close() calls made on the client

vars == <<base_url, app_id, cert_path, verify, timeout, session,
          pc, call, params, gets, reply, outcome, scope, closes>>

client == <<base_url, app_id, cert_path, verify, timeout, session>>

\* the state kept on the caller's side
caller == <<scope, closes>>

----------------------------------------------------------------------------
(* Bounds of the model *)

\* longest value handed to _validate_url_value on its own
MaxValueLen == 3

\* most keyword arguments one call supplies in the wide-argument specification
MaxSupplied == 3

\* most close() calls the caller makes itself, outside of __exit__
MaxCloses == 2

----------------------------------------------------------------------------
(* Python values *)

None == {}

Some(v) == {v}

IsNone(x) == x = {}

Val(x) == CHOOSE v \in x : TRUE

\* Python truthiness of an Optional[str]: None and "" are falsy
Truthy(x) == x # {} /\ Val(x) # <<>>

\* "char in value" for a one-character string
Contains(value, char) == \E i \in 1..Len(value) : value[i] = char

\* the alphabet caller strings are drawn from: two harmless characters, the
\* four characters the CCP API rejects, and the space
Alphabet == {"a", "=", "+", "&", "%", ";", " "}

RECURSIVE StringsUpTo(_)
StringsUpTo(n) ==
    IF n = 0 THEN {<<>>}
    ELSE LET shorter == StringsUpTo(n - 1)
         IN  shorter \cup {Append(s, c) : s \in {t \in shorter : Len(t) = n - 1},
                                          c \in Alphabet}

----------------------------------------------------------------------------
(* exceptions.py *)

CyberarkCCPError == "CyberarkCCPError"

Subclasses ==
    {"CyberarkCCPAuthenticationError", "CyberarkCCPAuthorizationError",
     "CyberarkCCPAccountNotFoundError", "CyberarkCCPConnectionError",
     "CyberarkCCPTimeoutError", "CyberarkCCPValidationError"}

\* isinstance(e, CyberarkCCPError)
IsCCPError(cat) == cat = CyberarkCCPError \/ cat \in Subclasses

Raise(cat, fmt, args) ==
    [kind |-> "raise", cat |-> cat, msg |-> [fmt |-> fmt, args |-> args]]

Ok(v) == [kind |-> "ok", value |-> v]

NoOutcome == [kind |-> "none"]

----------------------------------------------------------------------------
(* CyberarkCCPClient._validate_url_value *)

invalid_chars == <<"+", "&", "%", ";">>

\* the first character of invalid_chars, from position i on, found in value
\* (0 when there is none): the for loop raises at the first hit
RECURSIVE FirstInvalid(_, _)
FirstInvalid(value, i) ==
    IF i > Len(invalid_chars) THEN 0
    ELSE IF Contains(value, invalid_chars[i]) THEN i
    ELSE FirstInvalid(value, i + 1)

\* _validate_url_value with ';' missing from invalid_chars
validate_without_semicolon(value, param_name) ==
    IF \E i \in 1..3 : Contains(value, invalid_chars[i])
    THEN Raise("CyberarkCCPValidationError",
               "Parameter '{param_name}' contains invalid character '{char}'. Characters {invalid_chars} are not supported.",
               <<param_name,
                 invalid_chars[CHOOSE i \in 1..3 :
                     /\ Contains(value, invalid_chars[i])
                     /\ \A j \in 1..(i - 1) : ~Contains(value, invalid_chars[j])],
                 invalid_chars>>)
    ELSE IF Contains(value, " ")
    THEN Raise("CyberarkCCPValidationError",
               "Parameter '{param_name}' contains spaces which are not allowed in URLs",
               <<param_name>>)
    ELSE Ok(None)

_validate_url_value(value, param_name) ==
    LET hit == FirstInvalid(value, 1)
    IN  IF hit # 0
        THEN Raise("CyberarkCCPValidationError",
                   "Parameter '{param_name}' contains invalid character '{char}'. Characters {invalid_chars} are not supported.",
                   <<param_name, invalid_chars[hit], invalid_chars>>)
        ELSE IF Contains(value, " ")
        THEN Raise("CyberarkCCPValidationError",
                   "Parameter '{param_name}' contains spaces which are not allowed in URLs",
                   <<param_name>>)
        ELSE Ok(None)

----------------------------------------------------------------------------
(* QueryFormat, str() and str().lower() *)

\* the member's name sent in the place of its value
QueryFormatValue_name(member) ==
    IF member = "EXACT" THEN <<"E", "X", "A", "C", "T">>
    ELSE <<"R", "E", "G", "E", "X", "P">>

\* QueryFormat.EXACT.value and QueryFormat.REGEXP.value
QueryFormatValue(member) ==
    IF member = "EXACT" THEN <<"E", "x", "a", "c", "t">>
    ELSE <<"R", "e", "g", "e", "x", "p">>

Digit(d) == <<"0", "1", "2", "3", "4", "5", "6", "7", "8", "9">>[d + 1]

\* str(n) of a non-negative int: its decimal digits
RECURSIVE NatToStr(_)
NatToStr(n) ==
    IF n < 10 THEN <<Digit(n)>>
    ELSE Append(NatToStr(n \div 10), Digit(n % 10))

\* str(n) of an int
IntToStr(n) == IF n < 0 THEN <<"-">> \o NatToStr(-n) ELSE NatToStr(n)

\* str(b) of a bool
BoolToStr(b) ==
    IF b THEN <<"T", "r", "u", "e">> ELSE <<"F", "a", "l", "s", "e">>

LowerChar(c) == IF c = "T" THEN "t" ELSE IF c = "F" THEN "f" ELSE c

\* s.lower()
Lower(s) == [i \in 1..Len(s) |-> LowerChar(s[i])]

----------------------------------------------------------------------------
(* CyberarkCCPClient._build_params *)

\* params[key] = value after _validate_url_value(value, key) passed; a builder
\* that has already raised stays raised (the statements after a raise do not run)
ValidateAndSet(b, key, value) ==
    IF b.kind # "ok" THEN b
    ELSE LET r == _validate_url_value(value, key)
         IN  IF r.kind = "raise" THEN r
             ELSE Ok(Append(b.value, <<key, value>>))

\* params[key] = value, with no validation
SetParam(b, key, value) ==
    IF b.kind # "ok" THEN b ELSE Ok(Append(b.value, <<key, value>>))

\* the dict optional_params, in insertion order
optional_params(a) ==
    << <<"Safe", a.safe>>, <<"Folder", a.folder>>, <<"Object", a.password_object>>,
       <<"UserName", a.username>>, <<"Address", a.address>>,
       <<"Database", a.database>>, <<"PolicyID", a.policy_id>> >>

\* for key, value in optional_params.items(): if value is not None: ...
RECURSIVE AddOptional(_, _, _)
AddOptional(b, items, i) ==
    IF i > Len(items) THEN b
    ELSE LET key == items[i][1]
             value == items[i][2]
         IN  AddOptional(IF ~IsNone(value) THEN ValidateAndSet(b, key, Val(value))
                         ELSE b,
                         items, i + 1)

\* SearchPart that adds the discrete fields on the query path too
SearchPart_keeps_discrete(b, a) ==
    IF Truthy(a.query)
    THEN AddOptional(ValidateAndSet(b, "Query", Val(a.query)), optional_params(a), 1)
    ELSE AddOptional(b, optional_params(a), 1)

\* SearchPart that sends the server's default "Exact" when query comes
\* without a query_format
SearchPart_default_format(b, a) ==
    IF Truthy(a.query)
    THEN LET q == ValidateAndSet(b, "Query", Val(a.query))
         IN  IF ~IsNone(a.query_format)
             THEN SetParam(q, "Query Format", QueryFormatValue(Val(a.query_format)))
             ELSE SetParam(q, "Query Format", QueryFormatValue("EXACT"))
    ELSE AddOptional(b, optional_params(a), 1)

\* if query: ... else: ...
SearchPart(b, a) ==
    IF Truthy(a.query)
    THEN LET q == ValidateAndSet(b, "Query", Val(a.query))
         IN  IF ~IsNone(a.query_format)
             THEN SetParam(q, "Query Format", QueryFormatValue(Val(a.query_format)))
             ELSE q
    ELSE AddOptional(b, optional_params(a), 1)

\* if reason is not None: ...
ReasonPart(b, a) ==
    IF ~IsNone(a.reason) THEN ValidateAndSet(b, "Reason", Val(a.reason)) ELSE b

\* the timeout check written with "< 0": zero is sent to the server
TimeoutPart_accepts_zero(b, a) ==
    IF b.kind # "ok" \/ IsNone(a.connection_timeout) THEN b
    ELSE IF Val(a.connection_timeout) < 0
    THEN Raise("CyberarkCCPValidationError", "Connection timeout must be positive", <<>>)
    ELSE SetParam(b, "Connection Timeout", IntToStr(Val(a.connection_timeout)))

\* if connection_timeout is not None: ...
TimeoutPart(b, a) ==
    IF b.kind # "ok" \/ IsNone(a.connection_timeout) THEN b
    ELSE IF Val(a.connection_timeout) <= 0
    THEN Raise("CyberarkCCPValidationError", "Connection timeout must be positive", <<>>)
    ELSE SetParam(b, "Connection Timeout", IntToStr(Val(a.connection_timeout)))

\* the flag tested for truth: an explicit False is left out like None
FailRequestPart_truthy(b, a) ==
    IF ~IsNone(a.fail_request_on_password_change)
       /\ Val(a.fail_request_on_password_change)
    THEN SetParam(b, "FailRequestOnPasswordChange",
                  Lower(BoolToStr(Val(a.fail_request_on_password_change))))
    ELSE b

\* if fail_request_on_password_change is not None: ...
FailRequestPart(b, a) ==
    IF ~IsNone(a.fail_request_on_password_change)
    THEN SetParam(b, "FailRequestOnPasswordChange",
                  Lower(BoolToStr(Val(a.fail_request_on_password_change))))
    ELSE b

\* the builder that checks connection_timeout before the values
_build_params_timeout_first(self_app_id, a) ==
    FailRequestPart(
        ReasonPart(
            SearchPart(
                TimeoutPart(Ok(<< <<"AppID", self_app_id>> >>), a), a), a), a)

\* the builder that validates the application id like the other values
_build_params_validates_appid(self_app_id, a) ==
    FailRequestPart(
        TimeoutPart(
            ReasonPart(
                SearchPart(ValidateAndSet(Ok(<<>>), "AppID", self_app_id), a), a), a), a)

\* the builder that adds AppID after the other parameters
_build_params_appid_last(self_app_id, a) ==
    SetParam(
        FailRequestPart(
            TimeoutPart(
                ReasonPart(
                    SearchPart(Ok(<<>>), a), a), a), a),
        "AppID", self_app_id)

_build_params(self_app_id, a) ==
    FailRequestPart(
        TimeoutPart(
            ReasonPart(
                SearchPart(Ok(<< <<"AppID", self_app_id>> >>), a), a), a), a)

\* the keys of a parameter mapping, and the value under a key
Keys(ps) == {ps[i][1] : i \in 1..Len(ps)}

Get(ps, key) == ps[CHOOSE i \in 1..Len(ps) : ps[i][1] = key][2]

----------------------------------------------------------------------------
(* The transport (requests): responses, their JSON decoding, its exceptions *)

\* a Python str or None held in a decoded JSON document or in a message
PyStr(s) == [t |-> "str", s |-> s]

PyNone == [t |-> "null"]

\* d.get(key, default) on a dict
DictGet(d, key, default) == IF key \in DOMAIN d THEN d[key] ELSE default

\* the classes an exception raised inside the try block is an instance of
Bases(exc) ==
    CASE exc = "HTTPError"        -> {"HTTPError", "RequestException"}
      [] exc = "ReadTimeout"      -> {"Timeout", "RequestException"}
      [] exc = "ConnectTimeout"   -> {"ConnectionError", "Timeout", "RequestException"}
      [] exc = "ConnectionError"  -> {"ConnectionError", "RequestException"}
      [] exc = "TooManyRedirects" -> {"RequestException"}
      [] exc = "JSONDecodeError"  -> {"RequestException", "ValueError"}
      [] exc = "ValueError"       -> {"ValueError"}

\* response.raise_for_status() raises HTTPError
RaisesForStatus(status_code) == 400 <= status_code /\ status_code < 600

\* str(http_err): the transport's text for the status error
StrHttpErr(status_code) == [t |-> "str(http_err)", status_code |-> status_code]

\* str(exc) of a transport exception
StrExc(exc) == [t |-> "str(exc)", exc |-> exc]

----------------------------------------------------------------------------
(* CyberarkCCPClient._handle_http_error *)

\* the error raised with the upstream code alone, its message dropped
Coded_without_message(cat, fmt, error_code, error_message) ==
    Raise(cat, fmt, <<error_code>>)

\* the error raised for an upstream code and message
Coded(cat, fmt, error_code, error_message) ==
    Raise(cat, fmt, <<error_code, error_message>>)

\* the 400 branch with APPAP229E missing from the "Too many objects" list
Classify400_without_229(error_code, error_message) ==
    IF error_code \in {PyStr("AIMWS030E")}
    THEN Coded("CyberarkCCPValidationError",
               "Invalid query format ({error_code}): {error_message}",
               error_code, error_message)
    ELSE IF error_code \in {PyStr("APPAP227E"), PyStr("APPAP228E")}
    THEN Coded("CyberarkCCPAccountNotFoundError",
               "Too many objects ({error_code}): {error_message}",
               error_code, error_message)
    ELSE IF error_code \in {PyStr("APPAP007E")}
    THEN Coded("CyberarkCCPConnectionError",
               "Connection to Vault failed ({error_code}): {error_message}",
               error_code, error_message)
    ELSE IF error_code \in {PyStr("APPAP081E"), PyStr("CASVL010E"), PyStr("AIMWS031E")}
    THEN Coded("CyberarkCCPValidationError",
               "Request validation error ({error_code}): {error_message}",
               error_code, error_message)
    ELSE Coded(CyberarkCCPError, "Bad Request ({error_code}): {error_message}",
               error_code, error_message)

\* if status_code == 400
Classify400(error_code, error_message) ==
    IF error_code \in {PyStr("AIMWS030E")}
    THEN Coded("CyberarkCCPValidationError",
               "Invalid query format ({error_code}): {error_message}",
               error_code, error_message)
    ELSE IF error_code \in {PyStr("APPAP227E"), PyStr("APPAP228E"), PyStr("APPAP229E")}
    THEN Coded("CyberarkCCPAccountNotFoundError",
               "Too many objects ({error_code}): {error_message}",
               error_code, error_message)
    ELSE IF error_code \in {PyStr("APPAP007E")}
    THEN Coded("CyberarkCCPConnectionError",
               "Connection to Vault failed ({error_code}): {error_message}",
               error_code, error_message)
    ELSE IF error_code \in {PyStr("APPAP081E"), PyStr("CASVL010E"), PyStr("AIMWS031E")}
    THEN Coded("CyberarkCCPValidationError",
               "Request validation error ({error_code}): {error_message}",
               error_code, error_message)
    ELSE Coded(CyberarkCCPError, "Bad Request ({error_code}): {error_message}",
               error_code, error_message)

\* the 403 branch raising the authentication error for APPAP008E too
Classify403_008_authentication(error_code, error_message) ==
    IF error_code \in {PyStr("APPAP306E")}
    THEN Coded("CyberarkCCPAuthenticationError",
               "Authentication failed ({error_code}): {error_message}",
               error_code, error_message)
    ELSE IF error_code \in {PyStr("APPAP008E")}
    THEN Coded("CyberarkCCPAuthenticationError",
               "User not defined ({error_code}): {error_message}",
               error_code, error_message)
    ELSE Coded("CyberarkCCPAuthorizationError",
               "Authorization failed ({error_code}): {error_message}",
               error_code, error_message)

\* elif status_code == 403
Classify403(error_code, error_message) ==
    IF error_code \in {PyStr("APPAP306E")}
    THEN Coded("CyberarkCCPAuthenticationError",
               "Authentication failed ({error_code}): {error_message}",
               error_code, error_message)
    ELSE IF error_code \in {PyStr("APPAP008E")}
    THEN Coded("CyberarkCCPAuthorizationError",
               "User not defined ({error_code}): {error_message}",
               error_code, error_message)
    ELSE Coded("CyberarkCCPAuthorizationError",
               "Authorization failed ({error_code}): {error_message}",
               error_code, error_message)

\* elif status_code == 404
Classify404(error_code, error_message) ==
    IF error_code \in {PyStr("APPAP004E")}
    THEN Coded("CyberarkCCPAccountNotFoundError",
               "Safe not found ({error_code}): {error_message}",
               error_code, error_message)
    ELSE Coded("CyberarkCCPAccountNotFoundError",
               "Resource not found ({error_code}): {error_message}",
               error_code, error_message)

\* elif status_code == 500
Classify500(error_code, error_message) ==
    IF error_code \in {PyStr("APPAP282E")}
    THEN Coded(CyberarkCCPError,
               "Password change in progress ({error_code}): {error_message}",
               error_code, error_message)
    ELSE Coded(CyberarkCCPError,
               "Internal server error ({error_code}): {error_message}",
               error_code, error_message)

\* else
ClassifyOther(status_code, error_code, error_message) ==
    Raise(CyberarkCCPError,
          "CCP API error {status_code} ({error_code}): {error_message}",
          <<status_code, error_code, error_message>>)

\* the try block: the body decoded to error_json
ClassifyJson(status_code, error_json) ==
    IF error_json.type # "object"
    THEN \* error_json.get on a list, a str, a number or None
         Raise("AttributeError", "'{type}' object has no attribute 'get'",
               <<error_json.type>>)
    ELSE
    LET error_code == DictGet(error_json.fields, "ErrorCode", PyStr("Unknown"))
        error_message == DictGet(error_json.fields, "ErrorMessage",
                                 PyStr("No message provided"))
    IN  IF status_code = 400 THEN Classify400(error_code, error_message)
        ELSE IF status_code = 403 THEN Classify403(error_code, error_message)
        ELSE IF status_code = 404 THEN Classify404(error_code, error_message)
        ELSE IF status_code = 500 THEN Classify500(error_code, error_message)
        ELSE ClassifyOther(status_code, error_code, error_message)

\* the fallback with 403 classified as in the JSON branch (authorization)
ClassifyText_403_authorization(status_code, text, http_err) ==
    LET error_text == IF text # PyStr("") THEN text ELSE http_err
        with(cat, fmt) == Raise(cat, fmt, <<status_code, error_text>>)
    IN  IF status_code = 400
        THEN with("CyberarkCCPValidationError", "Bad Request (HTTP {status_code}): {error_text}")
        ELSE IF status_code = 403
        THEN with("CyberarkCCPAuthorizationError", "Forbidden (HTTP {status_code}): {error_text}")
        ELSE IF status_code = 404
        THEN with("CyberarkCCPAccountNotFoundError", "Not Found (HTTP {status_code}): {error_text}")
        ELSE IF status_code = 500
        THEN with(CyberarkCCPError, "Internal Server Error (HTTP {status_code}): {error_text}")
        ELSE with(CyberarkCCPError, "HTTP error {status_code}: {error_text}")

\* except ValueError: the body is not JSON
ClassifyText(status_code, text, http_err) ==
    LET error_text == IF text # PyStr("") THEN text ELSE http_err
        with(cat, fmt) == Raise(cat, fmt, <<status_code, error_text>>)
    IN  IF status_code = 400
        THEN with("CyberarkCCPValidationError", "Bad Request (HTTP {status_code}): {error_text}")
        ELSE IF status_code = 403
        THEN with("CyberarkCCPAuthenticationError", "Forbidden (HTTP {status_code}): {error_text}")
        ELSE IF status_code = 404
        THEN with("CyberarkCCPAccountNotFoundError", "Not Found (HTTP {status_code}): {error_text}")
        ELSE IF status_code = 500
        THEN with(CyberarkCCPError, "Internal Server Error (HTTP {status_code}): {error_text}")
        ELSE with(CyberarkCCPError, "HTTP error {status_code}: {error_text}")

\* response is [status_code, text, json]: json is what response.json() gives,
\* a decoded document or the exception it raises
_handle_http_error(response, http_err) ==
    IF response.json.kind = "raise"
    THEN ClassifyText(response.status_code, response.text, http_err)
    ELSE ClassifyJson(response.status_code, response.json.value)

----------------------------------------------------------------------------
(* CyberarkCCPClient.get_account and get_password *)

\* the guard written with "is None": an empty string counts as a criterion
NoCriteria_is_none(a) ==
    /\ IsNone(a.query)
    /\ IsNone(a.account)
    /\ IsNone(a.safe)
    /\ IsNone(a.password_object)
    /\ IsNone(a.username)
    /\ IsNone(a.address)
    /\ IsNone(a.database)
    /\ IsNone(a.policy_id)

\* the guard of get_account: no search criterion is truthy
NoCriteria(a) ==
    /\ ~Truthy(a.query)
    /\ ~Truthy(a.account)
    /\ ~Truthy(a.safe)
    /\ ~Truthy(a.password_object)
    /\ ~Truthy(a.username)
    /\ ~Truthy(a.address)
    /\ ~Truthy(a.database)
    /\ ~Truthy(a.policy_id)

\* get_account up to the GET: the error it raises, or the parameters it built
Prepare(self_app_id, a) ==
    IF NoCriteria(a)
    THEN Raise("CyberarkCCPValidationError",
               "The query must contain the AppID and at least one other parameter",
               <<>>)
    ELSE _build_params(self_app_id, a)

\* the arguments of self._session.get
GetRequest(ps) ==
    [url     |-> Append(base_url, "/AIMWebService/api/Accounts"),
     params  |-> ps,
     verify  |-> verify,
     cert    |-> IF Truthy(cert_path) THEN cert_path ELSE None,
     timeout |-> timeout]

\* the except clauses with ConnectionError tried before Timeout
Handlers_connection_first ==
    <<"HTTPError", "ConnectionError", "Timeout", "RequestException", "ValueError">>

\* the except clauses with the one for Timeout left out
Handlers_without_timeout == <<"HTTPError", "ConnectionError", "RequestException", "ValueError">>

\* the except clauses of get_account, in order; the first whose class the
\* exception is an instance of handles it
Handlers == <<"HTTPError", "Timeout", "ConnectionError", "RequestException", "ValueError">>

RECURSIVE FirstHandler(_, _)
FirstHandler(exc, i) ==
    IF i > Len(Handlers) THEN "none"
    ELSE IF Handlers[i] \in Bases(exc) THEN Handlers[i]
    ELSE FirstHandler(exc, i + 1)

\* the handler body for an exception raised in the try block
Handle(exc, response) ==
    LET h == FirstHandler(exc, 1)
    IN  CASE h = "HTTPError" ->
               _handle_http_error(response, StrHttpErr(response.status_code))
          [] h = "Timeout" ->
               Raise("CyberarkCCPTimeoutError",
                     "Request timed out after {self.timeout} seconds", <<timeout>>)
          [] h = "ConnectionError" ->
               Raise("CyberarkCCPConnectionError", "Connection error: {str(conn_err)}",
                     <<StrExc(exc)>>)
          [] h = "RequestException" ->
               Raise(CyberarkCCPError, "Request failed: {str(req_err)}", <<StrExc(exc)>>)
          [] h = "ValueError" ->
               Raise(CyberarkCCPError, "Invalid JSON response from server", <<>>)
          [] OTHER -> Raise(exc, "{exc}", <<StrExc(exc)>>)

\* get_account from the transport's answer on: what it returns or raises
AccountResult(r) ==
    IF r.kind = "exception" THEN Handle(r.exc, r)
    ELSE IF RaisesForStatus(r.status_code) THEN Handle("HTTPError", r)
    ELSE IF r.json.kind = "raise" THEN Handle(r.json.exc, r)
    ELSE Ok(r.json.value)

\* get_password written as account_data.get("Content"): None when absent
PasswordResult_default_none(r) ==
    LET account_data == AccountResult(r)
    IN  IF account_data.kind # "ok" THEN account_data
        ELSE IF account_data.value.type # "object"
        THEN Raise("AttributeError", "'{type}' object has no attribute 'get'",
                   <<account_data.value.type>>)
        ELSE Ok(DictGet(account_data.value.fields, "Content", PyNone))

\* get_password: account_data.get("Content", "")
PasswordResult(r) ==
    LET account_data == AccountResult(r)
    IN  IF account_data.kind # "ok" THEN account_data
        ELSE IF account_data.value.type # "object"
        THEN Raise("AttributeError", "'{type}' object has no attribute 'get'",
                   <<account_data.value.type>>)
        ELSE Ok(DictGet(account_data.value.fields, "Content", PyStr("")))

Result(op, r) == IF op = "get_password" THEN PasswordResult(r) ELSE AccountResult(r)

\* a returned value as the outcome of the call
Returned(res) ==
    IF res.kind = "ok" THEN [kind |-> "return", value |-> res.value] ELSE res

----------------------------------------------------------------------------
(* Inputs: constructor arguments, call arguments, transport answers *)

ArgNames ==
    {"account", "safe", "folder", "password_object", "username", "address",
     "database", "policy_id", "reason", "query", "query_format",
     "connection_timeout", "fail_request_on_password_change"}

\* the values a caller supplies for an argument: for a string the empty
\* string, a clean value and a value with a rejected character
ArgDomain(name) ==
    CASE name = "query_format" -> {"EXACT", "REGEXP"}
      [] name = "connection_timeout" -> {-1, 0, 45}
      [] name = "fail_request_on_password_change" -> BOOLEAN
      [] name = "reason" -> {<<>>, <<"a">>, <<"a", "+">>, <<"a", " ", "a">>}
      [] OTHER -> {<<>>, <<"a">>, <<"a", "+">>}

\* an argument in a call that supplies exactly the arguments of S
Given(S, name) == IF name \in S THEN {Some(v) : v \in ArgDomain(name)} ELSE {None}

\* the keyword arguments of the calls that supply exactly the arguments of S
ArgsSupplying(S) ==
    [account : Given(S, "account"), safe : Given(S, "safe"),
     folder : Given(S, "folder"), password_object : Given(S, "password_object"),
     username : Given(S, "username"), address : Given(S, "address"),
     database : Given(S, "database"), policy_id : Given(S, "policy_id"),
     reason : Given(S, "reason"), query : Given(S, "query"),
     query_format : Given(S, "query_format"),
     connection_timeout : Given(S, "connection_timeout"),
     fail_request_on_password_change : Given(S, "fail_request_on_password_change")]

\* the sets of at most k argument names
SuppliedSets(k) == {S \in SUBSET ArgNames : Cardinality(S) <= k}

Methods == {"get_account", "get_password"}

ConstructorInputs ==
    {[base_url |-> <<"https://ccp.example.com">>, app_id |-> <<"A", "p", "p">>,
      cert_path |-> None, verify |-> TRUE, timeout |-> 30],
     [base_url |-> <<"https://ccp.example.com", "/", "/">>, app_id |-> <<"A", "+", " ">>,
      cert_path |-> Some(<<"c", ".", "p", "e", "m">>), verify |-> FALSE, timeout |-> 5],
     [base_url |-> <<"https://ccp.example.com", "/">>, app_id |-> <<"A", "p", "p">>,
      cert_path |-> Some(<<>>), verify |-> TRUE, timeout |-> 30]}

\* one trailing slash removed, not all of them
Rstrip_once(url) ==
    IF url # <<>> /\ url[Len(url)] = "/" THEN SubSeq(url, 1, Len(url) - 1) ELSE url

\* base_url.rstrip("/")
RECURSIVE Rstrip(_)
Rstrip(url) ==
    IF url # <<>> /\ url[Len(url)] = "/" THEN Rstrip(SubSeq(url, 1, Len(url) - 1))
    ELSE url

ErrorCodes ==
    {"AIMWS030E", "APPAP227E", "APPAP228E", "APPAP229E", "APPAP007E", "APPAP081E",
     "CASVL010E", "AIMWS031E", "APPAP306E", "APPAP008E", "APPAP004E", "APPAP282E",
     "APPAP999E"}

\* the fields a JSON object body may carry
FieldValues ==
    [ErrorCode    |-> {PyStr(c) : c \in ErrorCodes} \cup {PyNone},
     ErrorMessage |-> {PyStr("failed")},
     Content      |-> {PyStr("P@ss1")}]

RECURSIVE Objects(_)
Objects(keys) ==
    IF keys = {} THEN {<<>>}
    ELSE LET k == CHOOSE x \in keys : TRUE
             rest == Objects(keys \ {k})
         IN  rest \cup {(k :> v) @@ o : v \in FieldValues[k], o \in rest}

Decoded(v) == [kind |-> "ok", value |-> v]

\* the bodies of a response: text that is not JSON (response.json() raises),
\* JSON documents that are not objects, JSON objects
Bodies ==
    {[text |-> t, json |-> [kind |-> "raise", exc |-> e]] :
        t \in {PyStr(""), PyStr("<html>error</html>")},
        e \in {"ValueError", "JSONDecodeError"}}
    \cup {[text |-> PyStr("[]"), json |-> Decoded([type |-> "list"])],
          [text |-> PyStr("null"), json |-> Decoded([type |-> "NoneType"])]}
    \cup {[text |-> PyStr("{...}"), json |-> Decoded([type |-> "object", fields |-> o])] :
             o \in Objects({"ErrorCode", "ErrorMessage", "Content"})}

StatusCodes == {100, 200, 204, 299, 301, 399, 400, 401, 403, 404, 499, 500, 503, 599}

TransportExceptions == {"ReadTimeout", "ConnectTimeout", "ConnectionError", "TooManyRedirects"}

Response(status_code, body) ==
    [kind |-> "response", status_code |-> status_code,
     text |-> body.text, json |-> body.json]

Replies ==
    {[kind |-> "exception", exc |-> e] : e \in TransportExceptions}
    \cup {Response(sc, b) : sc \in StatusCodes, b \in Bodies}

\* a few answers, one of each kind
FewReplies ==
    {[kind |-> "exception", exc |-> "ReadTimeout"],
     [kind |-> "exception", exc |-> "ConnectionError"],
     Response(200, [text |-> PyStr("{...}"),
                    json |-> Decoded([type |-> "object",
                                      fields |-> ("Content" :> PyStr("P@ss1"))])]),
     Response(500, [text |-> PyStr("{...}"),
                    json |-> Decoded([type |-> "object",
                                      fields |-> ("ErrorCode" :> PyStr("APPAP282E"))])])}

NoCall == [op |-> "none"]

NoReply == [kind |-> "none"]

\* no with statement entered, nothing bound by it, no error out of it, and no
\* error of an earlier call caught by the caller
NoScope == [at |-> "outside", target |-> "none", raised |-> NoOutcome, recovered |-> FALSE]

----------------------------------------------------------------------------
(* The state machine *)

\* CyberarkCCPClient.__init__
Init ==
    /\ \E c \in ConstructorInputs :
          /\ base_url = Rstrip(c.base_url)
          /\ app_id = c.app_id
          /\ cert_path = c.cert_path
          /\ verify = c.verify
          /\ timeout = c.timeout
    /\ session = "open"
    /\ pc = "idle"
    /\ call = NoCall
    /\ params = <<>>
    /\ gets = <<>>
    /\ reply = NoReply
    /\ outcome = NoOutcome
    /\ scope = NoScope
    /\ closes = 0

\* get_account / get_password called with arguments a: the precondition and
\* _build_params run, and either the call ends with their error or the GET is
\* handed to the transport
Invoke(op, a) ==
    /\ pc = "idle"
    /\ call' = [op |-> op, args |-> a]
    /\ LET b == Prepare(app_id, a)
       IN  IF b.kind = "raise"
           THEN /\ outcome' = b
                /\ pc' = "done"
                /\ UNCHANGED <<params, gets>>
           ELSE /\ params' = b.value
                /\ gets' = Append(gets, GetRequest(b.value))
                /\ pc' = "waiting"
                /\ UNCHANGED outcome
    /\ UNCHANGED <<client, reply, caller>>

\* Receive that sends the GET once more after a transport exception
Receive_retries(r) ==
    /\ pc = "waiting"
    /\ reply' = r
    /\ IF r.kind = "exception" /\ Len(gets) < 2
       THEN /\ gets' = Append(gets, gets[1])
            /\ UNCHANGED <<pc, outcome>>
       ELSE /\ outcome' = Returned(Result(call.op, r))
            /\ pc' = "done"
            /\ UNCHANGED gets
    /\ UNCHANGED <<client, call, params, caller>>

\* Receive that closes the session of the client after a transport exception
Receive_closes_session(r) ==
    /\ pc = "waiting"
    /\ reply' = r
    /\ outcome' = Returned(Result(call.op, r))
    /\ pc' = "done"
    /\ session' = IF r.kind = "exception" THEN "closed" ELSE session
    /\ UNCHANGED <<base_url, app_id, cert_path, verify, timeout, call, params, gets,
                   caller>>

\* the transport answers the GET and the call ends: it returns or raises
Receive(r) ==
    /\ pc = "waiting"
    /\ reply' = r
    /\ outcome' = Returned(Result(call.op, r))
    /\ pc' = "done"
    /\ UNCHANGED <<client, call, params, gets, caller>>

\* _validate_url_value called on its own
Validate(value, param_name) ==
    /\ pc = "idle"
    /\ call' = [op |-> "_validate_url_value", value |-> value, param_name |-> param_name]
    /\ outcome' = Returned(_validate_url_value(value, param_name))
    /\ pc' = "done"
    /\ UNCHANGED <<client, params, gets, reply, caller>>

\* control is back with the caller; nothing of the call is kept
Return ==
    /\ pc = "done"
    /\ pc' = "idle"
    /\ call' = NoCall
    /\ params' = <<>>
    /\ gets' = <<>>
    /\ reply' = NoReply
    /\ outcome' = NoOutcome
    /\ UNCHANGED <<client, caller>>

\* the caller catches the error the call raised (except CyberarkCCPError) and
\* goes on with the same client
Recover ==
    /\ pc = "done"
    /\ outcome.kind = "raise"
    /\ IsCCPError(outcome.cat)
    /\ pc' = "idle"
    /\ call' = NoCall
    /\ params' = <<>>
    /\ gets' = <<>>
    /\ reply' = NoReply
    /\ outcome' = NoOutcome
    /\ scope' = [scope EXCEPT !.recovered = TRUE]
    /\ UNCHANGED <<client, closes>>

\* CyberarkCCPClient.close: self._session.close()
close ==
    /\ session' = "closed"
    /\ closes' = closes + 1
    /\ UNCHANGED <<base_url, app_id, cert_path, verify, timeout>>

\* CyberarkCCPClient.__enter__: return self
__enter__ == "self"

\* __exit__ that swallows the error of the body: it returns True
__exit___suppresses(exc_val) == [closes |-> TRUE, returns |-> Some(TRUE)]

\* CyberarkCCPClient.__exit__(exc_type, exc_val, exc_tb): it calls self.close()
\* and returns None
__exit__(exc_val) == [closes |-> TRUE, returns |-> None]

\* the caller calls close() itself
Close ==
    /\ pc = "idle"
    /\ closes < MaxCloses
    /\ close
    /\ UNCHANGED <<pc, call, params, gets, reply, outcome, scope>>

\* "with client as target:" is entered: target is what __enter__ returns
Enter ==
    /\ pc = "idle"
    /\ scope.at # "inside"
    /\ closes < MaxCloses
    /\ scope' = [scope EXCEPT !.at = "inside", !.target = __enter__,
                              !.raised = NoOutcome]
    /\ UNCHANGED <<client, closes, pc, call, params, gets, reply, outcome>>

\* the with block is left, its body having completed or a call in it having
\* raised: __exit__ runs, and the error is raised again after it unless
\* __exit__ returned a true value
Leave ==
    /\ scope.at = "inside"
    /\ pc = "idle" \/ (pc = "done" /\ outcome.kind = "raise")
    /\ LET exc_val == IF pc = "done" THEN outcome ELSE NoOutcome
           x == __exit__(exc_val)
       IN  /\ IF x.closes THEN close ELSE UNCHANGED <<client, closes>>
           /\ scope' = [scope EXCEPT
                          !.at = "left",
                          !.raised = IF x.returns = None THEN exc_val ELSE NoOutcome]
    /\ pc' = "idle"
    /\ call' = NoCall
    /\ params' = <<>>
    /\ gets' = <<>>
    /\ reply' = NoReply
    /\ outcome' = NoOutcome

\* a call supplying one argument, or none
CallNarrow ==
    /\ pc = "idle"
    /\ \E op \in Methods, S \in SuppliedSets(1) : \E a \in ArgsSupplying(S) : Invoke(op, a)

\* a call supplying up to MaxSupplied arguments
CallWide ==
    /\ pc = "idle"
    /\ \E op \in Methods, S \in SuppliedSets(MaxSupplied) :
          \E a \in ArgsSupplying(S) : Invoke(op, a)

AnswerAny == pc = "waiting" /\ \E r \in Replies : Receive(r)

AnswerFew == pc = "waiting" /\ \E r \in FewReplies : Receive(r)

ParamNames ==
    {"Query", "Safe", "Folder", "Object", "UserName", "Address", "Database",
     "PolicyID", "Reason"}

CallValidate ==
    pc = "idle" /\ \E value \in StringsUpTo(MaxValueLen), name \in ParamNames : Validate(value, name)

\* values with two restricted characters, in the one order and in the other
OrderValues == {<<"a">>, <<";", "+">>, <<" ", "%">>, <<"&", " ">>}

\* the argument left out, or given one of these values
Maybe(values) == {None} \cup {Some(v) : v \in values}

\* calls in which several checks can fail at once
OrderArgs ==
    [account : {None}, safe : Maybe(OrderValues),
     folder : Maybe({<<"a">>, <<"&">>}), password_object : {None},
     username : {None}, address : {None}, database : {None},
     policy_id : Maybe({<<"a">>, <<"&">>}),
     reason : Maybe(OrderValues), query : Maybe(OrderValues),
     query_format : {None}, connection_timeout : Maybe({0, 45}),
     fail_request_on_password_change : {None}]

CallOrdered ==
    /\ pc = "idle"
    /\ \E op \in Methods, a \in OrderArgs : Invoke(op, a)

\* calls with few arguments against every answer of the transport
Next == CallNarrow \/ AnswerAny \/ Return

Spec == Init /\ [][Next]_vars

\* calls with many arguments against a few answers
NextArgs == CallWide \/ AnswerFew \/ Return

SpecArgs == Init /\ [][NextArgs]_vars

\* _validate_url_value alone
NextValidate == CallValidate \/ Return

SpecValidate == Init /\ [][NextValidate]_vars

\* calls whose arguments fail several checks at once
NextOrder == CallOrdered \/ AnswerFew \/ Return

SpecOrder == Init /\ [][NextOrder]_vars

\* the life of a client: with statement, close(), calls one after the other
\* with the caller catching their errors
NextScope ==
    Enter \/ Leave \/ Close \/ Recover \/ CallNarrow \/ AnswerFew \/ Return

SpecScope == Init /\ [][NextScope]_vars

----------------------------------------------------------------------------
(* The claims *)

Validation == "CyberarkCCPValidationError"

\* a get_account or get_password call is in progress or has just ended
InCall == pc # "idle" /\ call.op \in Methods

Criteria ==
    {"query", "account", "safe", "password_object", "username", "address",
     "database", "policy_id"}

Discrete ==
    <<"safe", "folder", "password_object", "username", "address", "database",
      "policy_id">>

WireName ==
    [safe |-> "Safe", folder |-> "Folder", password_object |-> "Object",
     username |-> "UserName", address |-> "Address", database |-> "Database",
     policy_id |-> "PolicyID"]

DiscreteWireNames == {WireName[Discrete[i]] : i \in 1..Len(Discrete)}

Chars(value) == {value[i] : i \in 1..Len(value)}

Clean(value) == Chars(value) \cap {"+", "&", "%", ";", " "} = {}

AbsentOrEmpty(x) == x = None \/ x = Some(<<>>)

\* C1: a call in which query, account, safe, password_object, username,
\* address, database and policy_id are all absent or empty ends with the
\* Validation error "The query must contain the AppID and at least one other
\* parameter" and hands no GET to the transport, whatever the other arguments
C1_NoCriteriaRejected ==
    (InCall /\ \A n \in Criteria : AbsentOrEmpty(call.args[n]))
        => /\ pc = "done"
           /\ outcome = Raise(Validation,
                  "The query must contain the AppID and at least one other parameter",
                  <<>>)
           /\ gets = <<>>
           /\ params = <<>>

C1_Witness ==
    /\ pc = "done"
    /\ call.op = "get_password"
    /\ \A n \in Criteria \ {"safe"} : call.args[n] = None
    /\ call.args.safe = Some(<<>>)
    /\ call.args.folder = Some(<<"a">>)
    /\ call.args.connection_timeout = Some(0)
    /\ outcome.kind = "raise"
    /\ gets = <<>>

\* C2: when query is non-empty, the wire parameters that are built hold Query
\* equal to the query and none of Safe, Folder, Object, UserName, Address,
\* Database, PolicyID, whatever the caller supplied for them; Reason,
\* Connection Timeout and FailRequestOnPasswordChange accompany it when supplied
C2_QueryOverridesDiscrete ==
    (InCall /\ params # <<>> /\ ~AbsentOrEmpty(call.args.query))
        => /\ "Query" \in Keys(params)
           /\ Get(params, "Query") = Val(call.args.query)
           /\ Keys(params) \cap DiscreteWireNames = {}
           /\ call.args.reason # None
                => "Reason" \in Keys(params)
                   /\ Get(params, "Reason") = Val(call.args.reason)
           /\ call.args.connection_timeout # None
                => "Connection Timeout" \in Keys(params)
           /\ call.args.fail_request_on_password_change # None
                => "FailRequestOnPasswordChange" \in Keys(params)
           /\ Len(gets) = 1 /\ gets[1].params = params

C2_Witness ==
    /\ pc = "waiting"
    /\ call.args.query = Some(<<"a">>)
    /\ call.args.safe = Some(<<"a">>)
    /\ call.args.reason = Some(<<"a">>)
    /\ Keys(params) = {"AppID", "Query", "Reason"}

\* C3: _validate_url_value raises (a Validation error) exactly when the value
\* holds one of + & % ; or a space; with one of the four characters the message
\* names such a character and the parameter, with a space and none of the four
\* it says the parameter contains spaces, and any other value is accepted
C3_ValidateIffRestrictedChar ==
    (pc = "done" /\ call.op = "_validate_url_value") =>
        LET four == Chars(call.value) \cap {"+", "&", "%", ";"}
            space == " " \in Chars(call.value)
        IN  /\ outcome.kind = "raise" <=> (four # {} \/ space)
            /\ outcome.kind = "raise" => outcome.cat = Validation
            /\ four # {} =>
                 /\ outcome.msg.fmt = "Parameter '{param_name}' contains invalid character '{char}'. Characters {invalid_chars} are not supported."
                 /\ outcome.msg.args[1] = call.param_name
                 /\ outcome.msg.args[2] \in four
            /\ (four = {} /\ space) =>
                 /\ outcome.msg.fmt = "Parameter '{param_name}' contains spaces which are not allowed in URLs"
                 /\ outcome.msg.args = <<call.param_name>>
            /\ (four = {} /\ ~space) => outcome = [kind |-> "return", value |-> None]

C3_Witness ==
    /\ pc = "done"
    /\ call.op = "_validate_url_value"
    /\ call.value = <<"a", " ", ";">>
    /\ call.param_name = "Safe"
    /\ outcome.kind = "raise"
    /\ outcome.msg.args[2] = ";"

\* C4: every get_account or get_password call that does not return normally
\* raises CyberarkCCPError or one of its six subclasses, whatever the
\* arguments, the transport's answer, the status code and the body
C4_OnlyLibraryErrors ==
    (pc = "done" /\ call.op \in Methods /\ outcome.kind = "raise")
        => \/ outcome.cat = CyberarkCCPError
           \/ outcome.cat \in
                {"CyberarkCCPValidationError", "CyberarkCCPAuthenticationError",
                 "CyberarkCCPAuthorizationError", "CyberarkCCPAccountNotFoundError",
                 "CyberarkCCPConnectionError", "CyberarkCCPTimeoutError"}

\* the precondition and every check of the builder pass
PassesChecks(a) ==
    /\ \E n \in Criteria : ~AbsentOrEmpty(a[n])
    /\ IF ~AbsentOrEmpty(a.query) THEN Clean(Val(a.query))
       ELSE \A i \in 1..Len(Discrete) :
               a[Discrete[i]] # None => Clean(Val(a[Discrete[i]]))
    /\ a.reason # None => Clean(Val(a.reason))
    /\ a.connection_timeout # None => Val(a.connection_timeout) > 0

\* C5: a call hands at most one GET to the transport: exactly one when the
\* precondition and the validation pass, none when they fail; after a timeout,
\* a connection failure or an error response the call has ended with one error
\* and still one GET; a call that ended has exactly one outcome
C5_AtMostOneGet ==
    /\ Len(gets) <= 1
    /\ InCall =>
         /\ Len(gets) = 1 <=> PassesChecks(call.args)
         /\ pc = "waiting" => outcome = NoOutcome /\ reply = NoReply
         /\ pc = "done" => outcome.kind \in {"return", "raise"}
         /\ (pc = "done" /\ ~PassesChecks(call.args))
              => outcome.kind = "raise" /\ reply = NoReply
         /\ reply # NoReply => pc = "done" /\ Len(gets) = 1
         /\ (reply # NoReply /\ (reply.kind = "exception" \/ reply.status_code >= 400))
              => outcome.kind = "raise"

C5_Witness ==
    /\ pc = "done"
    /\ call.op = "get_account"
    /\ reply.kind = "exception"
    /\ reply.exc = "ReadTimeout"
    /\ outcome.kind = "raise"
    /\ outcome.cat = "CyberarkCCPTimeoutError"
    /\ Len(gets) = 1

\* the call ended on an HTTP response with this status code
EndedOn(status_code) ==
    /\ pc = "done"
    /\ call.op \in Methods
    /\ reply.kind = "response"
    /\ reply.status_code = status_code

\* the body of the response decoded to a JSON object
BodyIsObject == reply.json.kind = "ok" /\ reply.json.value.type = "object"

\* the body of the response is not JSON
BodyIsNotJson == reply.json.kind = "raise"

\* the ErrorCode of a JSON object body is the string code
CodeIs(code) ==
    /\ "ErrorCode" \in DOMAIN reply.json.value.fields
    /\ reply.json.value.fields.ErrorCode = PyStr(code)

CodeIn(codes) == \E c \in codes : CodeIs(c)

\* the call raised cat with the message template fmt
Raised(cat, fmt) ==
    outcome.kind = "raise" /\ outcome.cat = cat /\ outcome.msg.fmt = fmt

\* C6: for a 403 response with a JSON object body, ErrorCode APPAP306E gives
\* Authentication ("Authentication failed"), APPAP008E gives Authorization
\* ("User not defined"), any other or missing ErrorCode gives Authorization
\* ("Authorization failed")
C6_Forbidden ==
    (EndedOn(403) /\ BodyIsObject) =>
        IF CodeIs("APPAP306E")
        THEN Raised("CyberarkCCPAuthenticationError",
                    "Authentication failed ({error_code}): {error_message}")
        ELSE IF CodeIs("APPAP008E")
        THEN Raised("CyberarkCCPAuthorizationError",
                    "User not defined ({error_code}): {error_message}")
        ELSE Raised("CyberarkCCPAuthorizationError",
                    "Authorization failed ({error_code}): {error_message}")

C6_Witness ==
    /\ EndedOn(403)
    /\ BodyIsObject
    /\ CodeIs("APPAP008E")
    /\ outcome.kind = "raise"
    /\ outcome.cat = "CyberarkCCPAuthorizationError"

\* C7: for a 400 response with a JSON object body the ErrorCode decides:
\* AIMWS030E Validation ("Invalid query format"); APPAP227E, APPAP228E,
\* APPAP229E AccountNotFound ("Too many objects"); APPAP007E Connection
\* ("Connection to Vault failed"); APPAP081E, CASVL010E, AIMWS031E Validation
\* ("Request validation error"); any other or missing ErrorCode the base
\* category itself ("Bad Request")
C7_BadRequest ==
    (EndedOn(400) /\ BodyIsObject) =>
        IF CodeIs("AIMWS030E")
        THEN Raised("CyberarkCCPValidationError",
                    "Invalid query format ({error_code}): {error_message}")
        ELSE IF CodeIn({"APPAP227E", "APPAP228E", "APPAP229E"})
        THEN Raised("CyberarkCCPAccountNotFoundError",
                    "Too many objects ({error_code}): {error_message}")
        ELSE IF CodeIs("APPAP007E")
        THEN Raised("CyberarkCCPConnectionError",
                    "Connection to Vault failed ({error_code}): {error_message}")
        ELSE IF CodeIn({"APPAP081E", "CASVL010E", "AIMWS031E"})
        THEN Raised("CyberarkCCPValidationError",
                    "Request validation error ({error_code}): {error_message}")
        ELSE Raised("CyberarkCCPError", "Bad Request ({error_code}): {error_message}")

C7_Witness ==
    /\ EndedOn(400)
    /\ BodyIsObject
    /\ CodeIs("APPAP229E")
    /\ outcome.kind = "raise"
    /\ outcome.cat = "CyberarkCCPAccountNotFoundError"

\* C8: every 404 response is classified as AccountNotFound whatever its body:
\* "Safe not found" for a JSON object with ErrorCode APPAP004E, "Resource not
\* found" for any other or missing ErrorCode, "Not Found (HTTP 404)" for a
\* body that is not JSON
C8_NotFound ==
    EndedOn(404) =>
        /\ outcome.kind = "raise"
        /\ outcome.cat = "CyberarkCCPAccountNotFoundError"
        /\ BodyIsObject =>
             outcome.msg.fmt = IF CodeIs("APPAP004E")
                               THEN "Safe not found ({error_code}): {error_message}"
                               ELSE "Resource not found ({error_code}): {error_message}"
        /\ BodyIsNotJson =>
             /\ outcome.msg.fmt = "Not Found (HTTP {status_code}): {error_text}"
             /\ outcome.msg.args[1] = 404

\* C9: a 500 response is always classified as the base category itself, with
\* "Password change in progress" for ErrorCode APPAP282E and "Internal server
\* error" for any other or missing ErrorCode; every error status other than
\* 400, 403, 404 and 500 is classified as the base category itself, with the
\* status code in the message
C9_ServerErrorAndOthers ==
    /\ EndedOn(500) =>
         /\ outcome.kind = "raise"
         /\ outcome.cat = "CyberarkCCPError"
         /\ BodyIsObject =>
              outcome.msg.fmt =
                  IF CodeIs("APPAP282E")
                  THEN "Password change in progress ({error_code}): {error_message}"
                  ELSE "Internal server error ({error_code}): {error_message}"
    /\ (pc = "done" /\ call.op \in Methods /\ reply.kind = "response"
           /\ reply.status_code >= 400
           /\ reply.status_code \notin {400, 403, 404, 500}) =>
         /\ outcome.kind = "raise"
         /\ outcome.cat = "CyberarkCCPError"
         /\ outcome.msg.args[1] = reply.status_code

\* C10: when the body of an error response is not JSON the status code alone
\* decides: 400 Validation, 403 Authentication, 404 AccountNotFound, 500 and
\* every other status the base category; the message holds the raw response
\* text, or the text of the HTTP error when the body is empty, and the decode
\* failure is not what the call raises
C10_NonJsonFallback ==
    (pc = "done" /\ call.op \in Methods /\ reply.kind = "response"
        /\ reply.status_code >= 400 /\ BodyIsNotJson) =>
        /\ outcome.kind = "raise"
        /\ outcome.cat =
             CASE reply.status_code = 400 -> "CyberarkCCPValidationError"
               [] reply.status_code = 403 -> "CyberarkCCPAuthenticationError"
               [] reply.status_code = 404 -> "CyberarkCCPAccountNotFoundError"
               [] OTHER -> "CyberarkCCPError"
        /\ Len(outcome.msg.args) = 2
        /\ outcome.msg.args[1] = reply.status_code
        /\ outcome.msg.args[2] =
             IF reply.text = PyStr("") THEN StrHttpErr(reply.status_code)
             ELSE reply.text

C10_Witness ==
    /\ EndedOn(403)
    /\ BodyIsNotJson
    /\ reply.json.exc = "JSONDecodeError"
    /\ reply.text = PyStr("")
    /\ outcome.kind = "raise"
    /\ outcome.cat = "CyberarkCCPAuthenticationError"
    /\ outcome.msg.args[2] = StrHttpErr(403)

\* the call ended on a transport exception (no HTTP response)
EndedOnException ==
    pc = "done" /\ call.op \in Methods /\ reply.kind = "exception"

\* C11: a transport failure is classified by its kind alone: a timeout gives
\* Timeout with "Request timed out after <client timeout> seconds", a
\* connection failure (that is no timeout) gives Connection, any other
\* transport failure the base category with "Request failed"; none of them
\* takes a message of the HTTP-status classification
C11_TransportFailures ==
    EndedOnException =>
        IF reply.exc \in {"ReadTimeout", "ConnectTimeout"}
        THEN outcome = Raise("CyberarkCCPTimeoutError",
                             "Request timed out after {self.timeout} seconds",
                             <<timeout>>)
        ELSE IF reply.exc = "ConnectionError"
        THEN Raised("CyberarkCCPConnectionError", "Connection error: {str(conn_err)}")
        ELSE Raised("CyberarkCCPError", "Request failed: {str(req_err)}")

C11_Witness ==
    /\ EndedOnException
    /\ reply.exc = "ReadTimeout"
    /\ timeout = 5
    /\ outcome.kind = "raise"
    /\ outcome.cat = "CyberarkCCPTimeoutError"
    /\ outcome.msg.args = <<5>>

\* the call ended on an HTTP response (a completed exchange)
EndedOnResponse ==
    pc = "done" /\ call.op \in Methods /\ reply.kind = "response"

Is2xx(status_code) == 200 <= status_code /\ status_code <= 299

\* C12: a completed HTTP exchange returns its decoded body only when the
\* status code is in 200-299; any other status code, 1xx and 3xx included,
\* gives an error of the library and never a returned record
C12_SuccessIff2xx ==
    EndedOnResponse =>
        /\ outcome.kind = "return" => Is2xx(reply.status_code)
        /\ ~Is2xx(reply.status_code) => outcome.kind = "raise"
        /\ (Is2xx(reply.status_code) /\ BodyIsObject) => outcome.kind = "return"

\* C13: for a success response whose body decodes to a JSON object,
\* get_account returns that object unchanged and get_password returns the
\* value of its Content field, or the empty string when Content is absent
C13_RoundTrip ==
    (EndedOnResponse /\ Is2xx(reply.status_code) /\ BodyIsObject) =>
        /\ outcome.kind = "return"
        /\ call.op = "get_account" => outcome.value = reply.json.value
        /\ call.op = "get_password" =>
             outcome.value =
                 IF "Content" \in DOMAIN reply.json.value.fields
                 THEN reply.json.value.fields.Content
                 ELSE PyStr("")

C13_Witness ==
    /\ EndedOn(200)
    /\ BodyIsObject
    /\ call.op = "get_password"
    /\ "Content" \notin DOMAIN reply.json.value.fields
    /\ outcome = [kind |-> "return", value |-> PyStr("")]

\* the builder ran to its end in this call: its parameters went into the GET
Built == InCall /\ Len(gets) = 1 /\ gets[1].params = params

\* the wire parameters hold key with this value
Emits(key, value) == key \in Keys(params) /\ Get(params, key) = value

\* C14: when query is absent or empty, the wire parameters that are built
\* hold Safe, Folder, Object, UserName, Address, Database, PolicyID with the
\* supplied value exactly for the fields that are present and non-empty; a
\* field that is absent or the empty string is not emitted
C14_DiscreteIffNonEmpty ==
    (Built /\ AbsentOrEmpty(call.args.query)) =>
        \A i \in 1..Len(Discrete) :
            LET x == call.args[Discrete[i]]
                key == WireName[Discrete[i]]
            IN  IF AbsentOrEmpty(x) THEN key \notin Keys(params)
                ELSE Emits(key, Val(x))

\* C15: every set of wire parameters that is built has AppID, equal to the
\* client's app_id, as its first entry and nowhere else, on the query path and
\* on the discrete-field path, whatever else is supplied
C15_AppIdFirst ==
    (InCall /\ (Len(gets) = 1 \/ params # <<>>)) =>
        /\ Built
        /\ params[1] = <<"AppID", app_id>>
        /\ \A i \in 2..Len(params) : params[i][1] # "AppID"

C15_Witness ==
    /\ Built
    /\ ~AbsentOrEmpty(call.args.query)
    /\ call.args.safe = Some(<<"a">>)
    /\ call.args.fail_request_on_password_change = Some(TRUE)
    /\ app_id = <<"A", "+", " ">>
    /\ params[1] = <<"AppID", <<"A", "+", " ">>>>
    /\ Len(params) = 3

\* the checks that run before the one of connection_timeout pass: the
\* precondition of get_account, and the validation of Query or of the discrete
\* fields and of Reason
ReachesTimeoutCheck(a) ==
    /\ \E n \in Criteria : ~AbsentOrEmpty(a[n])
    /\ IF ~AbsentOrEmpty(a.query) THEN Clean(Val(a.query))
       ELSE \A i \in 1..Len(Discrete) :
               a[Discrete[i]] # None => Clean(Val(a[Discrete[i]]))
    /\ a.reason # None => Clean(Val(a.reason))

\* the number a string of decimal digits writes, -1 when it is no such string
\* (empty, a sign, a character that is no digit, a leading zero)
DecimalDigits == <<"0", "1", "2", "3", "4", "5", "6", "7", "8", "9">>

RECURSIVE DigitsValue(_)
DigitsValue(s) ==
    IF s = <<>> THEN 0
    ELSE LET d == CHOOSE k \in 1..10 : DecimalDigits[k] = s[Len(s)]
         IN  10 * DigitsValue(SubSeq(s, 1, Len(s) - 1)) + (d - 1)

DecimalValue(s) ==
    IF s = <<>> \/ (\E i \in 1..Len(s) : \A k \in 1..10 : DecimalDigits[k] # s[i])
       \/ (Len(s) > 1 /\ s[1] = "0")
    THEN -1
    ELSE DigitsValue(s)

\* C16: when connection_timeout is supplied and the builder gets to its check,
\* a value <= 0 ends the call with the Validation error "Connection timeout
\* must be positive" and no GET, and a value > 0 puts "Connection Timeout" on
\* the wire as the decimal string of that integer; no set of parameters is
\* built with a supplied connection_timeout that is <= 0
C16_ConnectionTimeout ==
    (InCall /\ call.args.connection_timeout # None) =>
        LET n == Val(call.args.connection_timeout)
        IN  /\ (n <= 0 /\ ReachesTimeoutCheck(call.args)) =>
                  /\ pc = "done"
                  /\ outcome = Raise(Validation, "Connection timeout must be positive", <<>>)
                  /\ gets = <<>>
            /\ (n > 0 /\ ReachesTimeoutCheck(call.args)) =>
                  /\ Built
                  /\ "Connection Timeout" \in Keys(params)
                  /\ DecimalValue(Get(params, "Connection Timeout")) = n
            /\ n <= 0 => (pc = "done" /\ Raised(Validation, outcome.msg.fmt) /\ gets = <<>>)

C16_Witness ==
    /\ InCall
    /\ call.args.connection_timeout = Some(45)
    /\ call.args.safe = Some(<<"a">>)
    /\ Built
    /\ Emits("Connection Timeout", <<"4", "5">>)

C16_WitnessZero ==
    /\ pc = "done"
    /\ call.op \in Methods
    /\ call.args.connection_timeout = Some(0)
    /\ call.args.safe = Some(<<"a">>)
    /\ outcome = Raise(Validation, "Connection timeout must be positive", <<>>)

\* C17: in the wire parameters that are built, fail_request_on_password_change
\* given as True is FailRequestOnPasswordChange = "true", given as False it is
\* "false", and omitted the key is absent: False and omitted differ on the wire
C17_FailRequestThreeValued ==
    Built =>
        LET flag == call.args.fail_request_on_password_change
        IN  IF flag = None THEN "FailRequestOnPasswordChange" \notin Keys(params)
            ELSE IF Val(flag)
            THEN Emits("FailRequestOnPasswordChange", <<"t", "r", "u", "e">>)
            ELSE Emits("FailRequestOnPasswordChange", <<"f", "a", "l", "s", "e">>)

C17_Witness ==
    /\ Built
    /\ call.args.fail_request_on_password_change = Some(FALSE)
    /\ Emits("FailRequestOnPasswordChange", <<"f", "a", "l", "s", "e">>)

\* the argument of the call a wire parameter is made from
ArgumentOf(key) ==
    CASE key = "Query" -> "query"
      [] key = "Query Format" -> "query_format"
      [] key = "Reason" -> "reason"
      [] key = "Connection Timeout" -> "connection_timeout"
      [] key = "FailRequestOnPasswordChange" -> "fail_request_on_password_change"
      [] key \in DiscreteWireNames ->
           Discrete[CHOOSE i \in 1..Len(Discrete) : WireName[Discrete[i]] = key]
      [] OTHER -> "none"

\* C18: apart from AppID, every key of the wire parameters that are built is
\* made from an argument the caller supplied in that call; with only safe
\* supplied the parameters are AppID and Safe, with only query supplied they
\* are AppID and Query (no Query Format)
C18_NoInjectedDefault ==
    Built =>
        \A key \in Keys(params) \ {"AppID"} :
            /\ ArgumentOf(key) \in ArgNames
            /\ call.args[ArgumentOf(key)] # None

C18_Witness ==
    /\ Built
    /\ ~AbsentOrEmpty(call.args.query)
    /\ \A n \in ArgNames \ {"query"} : call.args[n] = None
    /\ Keys(params) = {"AppID", "Query"}

\* the upstream value under key of a JSON object body, or the text the
\* classifier puts in its place when the object has no such key
Upstream(key, placeholder) ==
    IF key \in DOMAIN reply.json.value.fields
    THEN reply.json.value.fields[key]
    ELSE PyStr(placeholder)

\* C19: for an error response (status 400 or above) whose body is a JSON
\* object, the message of the raised error is formatted with the upstream
\* ErrorCode and ErrorMessage as they came, in this order at its end, and with
\* "Unknown" or "No message provided" in the place of the one the object lacks
C19_UpstreamCodeAndMessage ==
    (EndedOnResponse /\ reply.status_code >= 400 /\ BodyIsObject) =>
        /\ outcome.kind = "raise"
        /\ LET args == outcome.msg.args
               n == Len(args)
           IN  /\ n >= 2
               /\ args[n - 1] = Upstream("ErrorCode", "Unknown")
               /\ args[n] = Upstream("ErrorMessage", "No message provided")

C19_Witness ==
    /\ EndedOn(403)
    /\ BodyIsObject
    /\ CodeIs("APPAP306E")
    /\ "ErrorMessage" \in DOMAIN reply.json.value.fields
    /\ outcome = Raise("CyberarkCCPAuthenticationError",
                       "Authentication failed ({error_code}): {error_message}",
                       <<PyStr("APPAP306E"), PyStr("failed")>>)

C19_WitnessLacking ==
    /\ EndedOn(404)
    /\ BodyIsObject
    /\ DOMAIN reply.json.value.fields = {"Content"}
    /\ outcome.kind = "raise"
    /\ outcome.msg.args = <<PyStr("Unknown"), PyStr("No message provided")>>

\* C20: when the body of a success response (status 200-299) cannot be
\* decoded as JSON, the call ends with the base category and the message
\* "Invalid JSON response from server", whichever exception the decoding
\* raised: a plain ValueError or one that is also a RequestException
C20_InvalidJson ==
    (EndedOnResponse /\ Is2xx(reply.status_code) /\ BodyIsNotJson) =>
        outcome = Raise(CyberarkCCPError, "Invalid JSON response from server", <<>>)

\* C21: entering the with statement binds the client itself; leaving it, the
\* body having completed or a call in it having raised, calls close() exactly
\* once, and the error of the body is raised again after that
C21_ScopedUse ==
    [][/\ scope'.at = "inside" => scope'.target = "self"
       /\ (scope.at = "inside" /\ scope'.at = "left") =>
             /\ closes' = closes + 1
             /\ session' = "closed"
             /\ scope'.raised = IF pc = "done" THEN outcome ELSE NoOutcome
             /\ pc = "done" => scope'.raised.kind = "raise"]_vars

C21_Witness ==
    /\ scope.at = "left"
    /\ scope.target = "self"
    /\ scope.raised.kind = "raise"
    /\ scope.raised.cat = "CyberarkCCPTimeoutError"
    /\ closes = 1
    /\ session = "closed"

PreconditionError ==
    Raise(Validation,
          "The query must contain the AppID and at least one other parameter", <<>>)

\* the call supplies the argument n, non-empty, and no other argument
SuppliesOnly(n) ==
    /\ InCall
    /\ ~AbsentOrEmpty(call.args[n])
    /\ \A m \in ArgNames \ {n} : call.args[m] = None

\* C22: a call that supplies exactly one of safe, folder, password_object,
\* username, address, database, policy_id, query (with the application id of
\* the client) is not rejected with the error "The query must contain the
\* AppID and at least one other parameter"
C22_EachAloneIsValid ==
    \A n \in {"safe", "folder", "password_object", "username", "address",
              "database", "policy_id", "query"} :
        SuppliesOnly(n) => outcome # PreconditionError

\* C23: a get_password call with a valid safe and password_object and a
\* reason that is free text with spaces sends the GET with Reason equal to that
\* text, and returns the password when the answer is a 200
C23_ReasonFreeText ==
    (/\ InCall
     /\ call.op = "get_password"
     /\ \A n \in {"safe", "password_object"} :
           ~AbsentOrEmpty(call.args[n]) /\ Clean(Val(call.args[n]))
     /\ call.args.reason # None
     /\ Chars(Val(call.args.reason)) \cap {"+", "&", "%", ";"} = {}
     /\ \A m \in ArgNames \ {"safe", "password_object", "reason"} : call.args[m] = None)
        => /\ Built
           /\ Emits("Reason", Val(call.args.reason))
           /\ EndedOn(200) => outcome.kind = "return"

\* the wire names whose values go through _validate_url_value
ValidatedNames == {"Query", "Reason"} \cup DiscreteWireNames

\* the call ended with an error of the character validation
CharacterError ==
    /\ pc = "done"
    /\ outcome.kind = "raise"
    /\ outcome.cat = Validation
    /\ outcome.msg.fmt \in
         {"Parameter '{param_name}' contains invalid character '{char}'. Characters {invalid_chars} are not supported.",
          "Parameter '{param_name}' contains spaces which are not allowed in URLs"}

\* a value on its way to the wire holds a restricted character: the query, or
\* without a query a discrete field, or the reason
WireValueDirty(a) ==
    \/ ~AbsentOrEmpty(a.query) /\ ~Clean(Val(a.query))
    \/ /\ AbsentOrEmpty(a.query)
       /\ \E i \in 1..Len(Discrete) :
             a[Discrete[i]] # None /\ ~Clean(Val(a[Discrete[i]]))
    \/ a.reason # None /\ ~Clean(Val(a.reason))

\* C24: every value emitted as Query, as one of the seven discrete names or as
\* Reason holds none of + & % ; and space; a call that passes the precondition
\* ends with a character-validation error exactly when a value on its way to
\* the wire holds one, and the error names that parameter; the application id
\* and the discrete fields ignored because of a non-empty query are never
\* validated
C24_ValidationOnlyOfWireValues ==
    InCall =>
        /\ Built => \A i \in 1..Len(params) :
                       params[i][1] \in ValidatedNames => Clean(params[i][2])
        /\ (\E n \in Criteria : ~AbsentOrEmpty(call.args[n]))
              => (CharacterError <=> WireValueDirty(call.args))
        /\ CharacterError =>
              LET name == outcome.msg.args[1]
              IN  /\ name \in ValidatedNames
                  /\ call.args[ArgumentOf(name)] # None
                  /\ ~Clean(Val(call.args[ArgumentOf(name)]))
                  /\ name \in DiscreteWireNames => AbsentOrEmpty(call.args.query)

C24_Witness ==
    /\ Built
    /\ app_id = <<"A", "+", " ">>
    /\ call.args.query = Some(<<"a">>)
    /\ call.args.safe = Some(<<"a", "+">>)
    /\ call.args.folder = Some(<<"a", "+">>)
    /\ params = << <<"AppID", <<"A", "+", " ">>>>, <<"Query", <<"a">>>> >>

\* C26: every GET that is issued carries, besides AppID, at least one of
\* Query, Safe, Folder, Object, UserName, Address, Database, PolicyID, whatever
\* the arguments of the call
C26_NeverAppIdAlone ==
    (InCall /\ Len(gets) = 1) =>
        Keys(gets[1].params) \cap ({"Query"} \cup DiscreteWireNames) # {}

\* C27: in the wire parameters that are built, "Query Format" comes only with
\* "Query"; with a non-empty query it is there exactly when query_format was
\* supplied, as "Exact" or "Regexp"; with an absent or empty query it is never
\* there
C27_QueryFormatOnlyWithQuery ==
    Built =>
        /\ "Query Format" \in Keys(params) => "Query" \in Keys(params)
        /\ IF AbsentOrEmpty(call.args.query) THEN "Query Format" \notin Keys(params)
           ELSE IF call.args.query_format = None THEN "Query Format" \notin Keys(params)
           ELSE IF call.args.query_format = Some("EXACT")
           THEN Emits("Query Format", <<"E", "x", "a", "c", "t">>)
           ELSE /\ call.args.query_format = Some("REGEXP")
                /\ Emits("Query Format", <<"R", "e", "g", "e", "x", "p">>)

C27_Witness ==
    /\ Built
    /\ call.args.query = Some(<<"a">>)
    /\ call.args.query_format = Some("REGEXP")
    /\ Emits("Query Format", <<"R", "e", "g", "e", "x", "p">>)

C27_WitnessNoQuery ==
    /\ Built
    /\ call.args.query = None
    /\ call.args.safe = Some(<<"a">>)
    /\ call.args.query_format = Some("EXACT")
    /\ Keys(params) = {"AppID", "Safe"}

\* what a call with these arguments is on a client with this configuration:
\* nothing is left of it between calls; while it runs its parameters and its
\* GET are the ones built from its own arguments; once it has ended its
\* outcome is the one its own arguments and the answer to its GET give
AsOnFreshClient ==
    IF pc = "idle"
    THEN call = NoCall /\ params = <<>> /\ gets = <<>> /\ reply = NoReply
         /\ outcome = NoOutcome
    ELSE call.op \in Methods =>
           LET b == Prepare(app_id, call.args)
           IN  IF b.kind = "raise"
               THEN pc = "done" /\ outcome = b /\ gets = <<>> /\ params = <<>>
               ELSE /\ params = b.value
                    /\ gets = <<GetRequest(b.value)>>
                    /\ pc = "waiting" => outcome = NoOutcome /\ reply = NoReply
                    /\ pc = "done" => outcome = Returned(Result(call.op, reply))

\* C25: no step other than close() changes base_url, app_id, cert_path,
\* verify, timeout or the session of the client, and close() changes the
\* session only; in every sequence of calls, each call is what it would be on a
\* fresh client: its parameters are built from its own arguments and its
\* outcome is given by its arguments and the answer to its GET, also after a
\* call that failed
C25_CallsAreStateless ==
    /\ [][/\ UNCHANGED <<base_url, app_id, cert_path, verify, timeout>>
          /\ closes' = closes => session' = session]_vars
    /\ []AsOnFreshClient

C25_Witness ==
    /\ scope.recovered
    /\ pc = "done"
    /\ call.op = "get_password"
    /\ reply.kind = "response"
    /\ reply.status_code = 200
    /\ outcome = [kind |-> "return", value |-> PyStr("P@ss1")]

\* the values a call has validated, as <<wire name, value>>, in the order the
\* claim gives: Query, or else the discrete fields from Safe to PolicyID, and
\* then Reason
RECURSIVE DiscreteChecks(_, _)
DiscreteChecks(a, i) ==
    IF i > Len(Discrete) THEN <<>>
    ELSE (IF a[Discrete[i]] # None
          THEN << <<WireName[Discrete[i]], Val(a[Discrete[i]])>> >>
          ELSE <<>>) \o DiscreteChecks(a, i + 1)

ValueChecks(a) ==
    (IF ~AbsentOrEmpty(a.query) THEN << <<"Query", Val(a.query)>> >>
     ELSE DiscreteChecks(a, 1))
    \o (IF a.reason # None THEN << <<"Reason", Val(a.reason)>> >> ELSE <<>>)

\* the error of the character validation for a value that is not clean: the
\* first of + & % ; that the value holds, or else its spaces
TestOrder == <<"+", "&", "%", ";">>

CharacterErrorFor(name, value) ==
    IF \E k \in 1..4 : TestOrder[k] \in Chars(value)
    THEN LET k == CHOOSE k \in 1..4 :
                      /\ TestOrder[k] \in Chars(value)
                      /\ \A j \in 1..(k - 1) : TestOrder[j] \notin Chars(value)
         IN  Raise(Validation,
                   "Parameter '{param_name}' contains invalid character '{char}'. Characters {invalid_chars} are not supported.",
                   <<name, TestOrder[k], TestOrder>>)
    ELSE Raise(Validation,
               "Parameter '{param_name}' contains spaces which are not allowed in URLs",
               <<name>>)

\* the error of the first check that fails, in the order precondition, values,
\* connection timeout; NoOutcome when every check passes
FirstFailure(a) ==
    LET checks == ValueChecks(a)
        dirty == {i \in 1..Len(checks) : ~Clean(checks[i][2])}
    IN  IF \A n \in Criteria : AbsentOrEmpty(a[n]) THEN PreconditionError
        ELSE IF dirty # {}
        THEN LET i == CHOOSE i \in dirty : \A j \in dirty : i <= j
             IN  CharacterErrorFor(checks[i][1], checks[i][2])
        ELSE IF a.connection_timeout # None /\ Val(a.connection_timeout) <= 0
        THEN Raise(Validation, "Connection timeout must be positive", <<>>)
        ELSE NoOutcome

\* C28: the checks of a call run in the order precondition, Query or else the
\* discrete values from Safe to PolicyID, Reason, connection timeout, with
\* + & % ; tested in this order before the space within a value; the call ends
\* with the error of the first check that fails and sends nothing, and when no
\* check fails its parameters are built and its GET is sent
C28_FirstFailingCheck ==
    InCall =>
        IF FirstFailure(call.args) = NoOutcome THEN Built
        ELSE pc = "done" /\ outcome = FirstFailure(call.args) /\ gets = <<>>

C28_Witness ==
    /\ pc = "done"
    /\ call.op \in Methods
    /\ call.args.safe = Some(<<";", "+">>)
    /\ call.args.policy_id = Some(<<"&">>)
    /\ call.args.reason = Some(<<" ", "%">>)
    /\ call.args.connection_timeout = Some(0)
    /\ call.args.query = None
    /\ outcome.kind = "raise"
    /\ outcome.msg.args[1] = "Safe"
    /\ outcome.msg.args[2] = "+"

C28_WitnessPrecondition ==
    /\ pc = "done"
    /\ call.op \in Methods
    /\ \A n \in Criteria : call.args[n] = None
    /\ call.args.connection_timeout = Some(0)
    /\ call.args.reason = Some(<<"&", " ">>)
    /\ outcome = PreconditionError

\* C29: every GET goes to the base URL without its trailing slashes followed
\* by /AIMWebService/api/Accounts, with verify and timeout those of the
\* client, whatever connection_timeout the call gives (it only sets the wire
\* parameter "Connection Timeout"), and with cert the certificate path of the
\* client, None when there is none or it is empty; the certificate path is no
\* wire parameter
C29_TransportArguments ==
    (InCall /\ Len(gets) = 1) =>
        LET g == gets[1]
        IN  /\ g.url = <<"https://ccp.example.com", "/AIMWebService/api/Accounts">>
            /\ g.verify = verify
            /\ g.timeout = timeout
            /\ g.cert = IF AbsentOrEmpty(cert_path) THEN None ELSE cert_path
            /\ \A i \in 1..Len(g.params) :
                  /\ g.params[i][1] \in {"AppID", "Query", "Query Format", "Reason",
                                         "Connection Timeout",
                                         "FailRequestOnPasswordChange"}
                                        \cup DiscreteWireNames
                  /\ ~AbsentOrEmpty(cert_path) => g.params[i][2] # Val(cert_path)
            /\ call.args.connection_timeout # None =>
                  /\ Val(call.args.connection_timeout) # g.timeout
                  /\ "Connection Timeout" \in Keys(g.params)
                  /\ DecimalValue(Get(g.params, "Connection Timeout"))
                       = Val(call.args.connection_timeout)

C29_Witness ==
    /\ InCall
    /\ Len(gets) = 1
    /\ cert_path = Some(<<"c", ".", "p", "e", "m">>)
    /\ timeout = 5
    /\ call.args.connection_timeout = Some(45)
    /\ gets[1].timeout = 5
    /\ gets[1].cert = cert_path
    /\ gets[1].verify = FALSE
    /\ gets[1].url = <<"https://ccp.example.com", "/AIMWebService/api/Accounts">>

\* the class of the failure the try block of the call met: the exception of the
\* transport, the HTTP-status error, or the exception of the JSON decoding
FailureMet ==
    IF reply.kind = "exception" THEN reply.exc
    ELSE IF reply.status_code >= 400 THEN "HTTPError"
    ELSE IF BodyIsNotJson THEN reply.json.exc
    ELSE "none"

\* the order the claim gives to the handlers
ClaimedOrder == <<"HTTPError", "Timeout", "ConnectionError", "RequestException", "ValueError">>

\* the handler that takes a failure: the first in that order it is an instance of
Fires(exc) ==
    ClaimedOrder[CHOOSE i \in 1..Len(ClaimedOrder) :
                     /\ ClaimedOrder[i] \in Bases(exc)
                     /\ \A j \in 1..(i - 1) : ClaimedOrder[j] \notin Bases(exc)]

TransportTemplates ==
    {"Request timed out after {self.timeout} seconds",
     "Connection error: {str(conn_err)}",
     "Request failed: {str(req_err)}",
     "Invalid JSON response from server"}

\* C30: a failure is taken by the first handler, in the order HTTP-status
\* error, Timeout, Connection, other transport failure, decode failure, that
\* it is an instance of, and the call raises the one error of that handler; a
\* connect timeout, which is a timeout and a connection failure, gives Timeout
C30_HandlerOrder ==
    (pc = "done" /\ call.op \in Methods /\ reply # NoReply /\ FailureMet # "none") =>
        /\ outcome.kind = "raise"
        /\ LET h == Fires(FailureMet)
           IN  CASE h = "HTTPError" -> outcome.msg.fmt \notin TransportTemplates
                 [] h = "Timeout" ->
                      Raised("CyberarkCCPTimeoutError",
                             "Request timed out after {self.timeout} seconds")
                 [] h = "ConnectionError" ->
                      Raised("CyberarkCCPConnectionError", "Connection error: {str(conn_err)}")
                 [] h = "RequestException" ->
                      Raised(CyberarkCCPError, "Request failed: {str(req_err)}")
                 [] h = "ValueError" ->
                      Raised(CyberarkCCPError, "Invalid JSON response from server")
        /\ FailureMet = "ConnectTimeout" => outcome.cat = "CyberarkCCPTimeoutError"

C30_Witness ==
    /\ EndedOnException
    /\ reply.exc = "ConnectTimeout"
    /\ outcome.kind = "raise"
    /\ outcome.cat = "CyberarkCCPTimeoutError"

=============================================================================
